---- MODULE Spec2Model ----
(***************************************************************************)
(* Model of src/main.py: the Jenkins build trigger.  One process runs      *)
(* main() and then run(); pc is the line the process is about to execute.  *)
(* The Jenkins server, the file system and the sender of SIGINT are the    *)
(* environment: every call to them returns one of the outcomes it can      *)
(* produce, chosen nondeterministically.                                   *)
(*                                                                         *)
(* Time is in whole seconds.  sleep(n) advances the clock by exactly n; a  *)
(* polled Jenkins call (get_build, build.result) returns at once or takes  *)
(* MaxLatency seconds; everything else is instantaneous.                   *)
(***************************************************************************)
EXTENDS Integers, Sequences, FiniteSets, TLC

\* ---------------------------------------------------------------- bounds
MaxStartTimeout == 4
MaxTimeout == 3
MaxInterval == 2
MaxLatency == 1
MaxInterrupts == 1

\* ------------------------------------------------------- Python values
PyNone == [type |-> "NoneType", text |-> "", keys |-> {}]
PyStr(s) == [type |-> "str", text |-> s, keys |-> {}]
PyDict(K) == [type |-> "dict", text |-> "", keys |-> K]
PyList(s) == [type |-> "list", text |-> s, keys |-> {}]


\* Truthy with the text "false" parsed as a word: it counts as false.
TruthyUnlessFalseWord(v) ==
    CASE v.type = "NoneType" -> FALSE
      [] v.type = "str" -> v.text \notin {"", "false"}
      [] v.type = "dict" -> v.keys # {}
      [] OTHER -> TRUE

\* Python truth value of a value (None, "" and {} are false).
Truthy(v) ==
    CASE v.type = "NoneType" -> FALSE
      [] v.type = "str" -> v.text # ""
      [] v.type = "dict" -> v.keys # {}
      [] OTHER -> TRUE

\* The texts given as INPUT_PARAMETERS / INPUT_COOKIES.
JsonObjectText == "{\"a\": \"1\"}"
JsonArrayText == "[1]"
JsonBadText == "{bad"
JsonTexts == {"", JsonObjectText, JsonArrayText, JsonBadText}

\* json.loads(text): ok = FALSE is json.JSONDecodeError.
JsonLoads(text) ==
    CASE text = JsonObjectText -> [ok |-> TRUE, value |-> PyDict({"a"})]
      [] text = "{}" -> [ok |-> TRUE, value |-> PyDict({})]
      [] text = JsonArrayText -> [ok |-> TRUE, value |-> PyList(text)]
      [] text = "null" -> [ok |-> TRUE, value |-> PyNone]
      [] OTHER -> [ok |-> FALSE, value |-> PyNone]

\* Decimal texts of the integers given as INPUT_TIMEOUT and the like.
DecimalText == <<"1", "2", "3", "4", "5", "6", "7", "8", "9">>
IsDecimal(v) == v.type = "str" /\ \E n \in 1..Len(DecimalText) : DecimalText[n] = v.text
\* int(v) for a decimal text.
IntOf(v) == CHOOSE n \in 1..Len(DecimalText) : DecimalText[n] = v.text

\* The values os.environ.get can return for a variable.
EnvBool == {PyNone, PyStr(""), PyStr("false")}
EnvJson == {PyNone} \cup {PyStr(t) : t \in JsonTexts}
EnvInt(max) == {PyStr(DecimalText[n]) : n \in 1..max}

\* The values build.url and build.result can hold.  "None" stands for Python's
\* None (the build has no result yet); NOT_BUILT is a result the code does not name.
BuildUrls == {"http://j/job/a/1/", "http://j/job/a/2/"}
BuildResults == {"None", "SUCCESS", "FAILURE", "ABORTED", "UNSTABLE", "NOT_BUILT"}

VARIABLES
    environ,        \* os.environ: the INPUT_* variables
    pc,             \* the statement about to execute; "exit" once the process ended
    parameters,     \* run's local `parameters` (rebound by line 60/64)
    cookies,        \* run's local `cookies` (rebound by line 68/72)
    wait,           \* run's arguments, set by main
    timeout,
    start_timeout,
    interval,
    cancel_jenkins_run_on_gh_cancel,
    handler,        \* the SIGINT handler installed by signal.signal
    clock,          \* time()
    t0,             \* run's local t0
    build,          \* whether run's local `build` holds a Build
    build_url,      \* run's local build_url ("" before line 103)
    log,            \* the sleeps and the calls to the Jenkins client so far, in order
    outputFile,     \* lines this run appended to $GITHUB_OUTPUT
    summaryFile,    \* lines this run appended to $GITHUB_STEP_SUMMARY
    stdout,         \* lines printed by line 112
    sigints,        \* pc at which each SIGINT arrived, in order
    exitCode,       \* the process's exit status; -1 while it runs
    error           \* the uncaught exception that ended the run

args == <<wait, timeout, start_timeout, interval, cancel_jenkins_run_on_gh_cancel>>
files == <<outputFile, summaryFile, stdout>>
vars == <<environ, pc, parameters, cookies, args, handler, clock, t0, build, build_url,
          log, files, sigints, exitCode, error>>

\* An exception: its type and the parts of its formatted message, the literal
\* text and each substituted value as one part (quoting marks left out).
NoError == [type |-> "", msg |-> <<>>]
Err(type, msg) == [type |-> type, msg |-> msg]

\* One entry of log: the operation, what it returned, time() - t0 when it began
\* and the seconds it took.
Entry(op, ret, took) == [op |-> op, ret |-> ret, at |-> clock - t0, took |-> took]

Init ==
    /\ environ \in [INPUT_PARAMETERS : EnvJson,
                    INPUT_COOKIES : EnvJson,
                    INPUT_WAIT : EnvBool,
                    INPUT_TIMEOUT : {PyNone} \cup EnvInt(MaxTimeout),
                    INPUT_START_TIMEOUT : EnvInt(MaxStartTimeout),
                    INPUT_INTERVAL : EnvInt(MaxInterval),
                    INPUT_CANCEL_JENKINS_RUN_ON_GH_CANCEL : EnvBool]
    /\ pc = "main"
    /\ parameters = PyNone
    /\ cookies = PyNone
    /\ wait = FALSE
    /\ timeout = 0
    /\ start_timeout = 0
    /\ interval = 0
    /\ cancel_jenkins_run_on_gh_cancel = FALSE
    /\ handler = "default"
    /\ clock = 0
    /\ t0 = 0
    /\ build = FALSE
    /\ build_url = ""
    /\ log = <<>>
    /\ outputFile = <<>>
    /\ summaryFile = <<>>
    /\ stdout = <<>>
    /\ sigints = <<>>
    /\ exitCode = -1
    /\ error = NoError

\* An uncaught exception ends the process with exit status 1.
Raise(e) ==
    /\ pc' = "exit"
    /\ exitCode' = 1
    /\ error' = e

\* run() returns, main() returns: exit status 0.
Return ==
    /\ pc' = "exit"
    /\ exitCode' = 0
    /\ UNCHANGED error

Goto(label) ==
    /\ pc' = label
    /\ UNCHANGED <<exitCode, error>>

\* main(), lines 138-168: read the environment and call run().  int(None) at
\* line 149 raises TypeError.
Main ==
    /\ pc = "main"
    /\ IF ~IsDecimal(environ.INPUT_TIMEOUT)
       THEN /\ Raise(Err("TypeError", <<"int() argument must be a string">>))
            /\ UNCHANGED <<parameters, cookies, args>>
       ELSE /\ parameters' = environ.INPUT_PARAMETERS
            /\ cookies' = environ.INPUT_COOKIES
            /\ wait' = Truthy(environ.INPUT_WAIT)
            /\ timeout' = IntOf(environ.INPUT_TIMEOUT)
            /\ start_timeout' = IntOf(environ.INPUT_START_TIMEOUT)
            /\ interval' = IntOf(environ.INPUT_INTERVAL)
            /\ cancel_jenkins_run_on_gh_cancel' =
                   Truthy(environ.INPUT_CANCEL_JENKINS_RUN_ON_GH_CANCEL)
            /\ Goto("parse_parameters")
    /\ UNCHANGED <<environ, handler, clock, t0, build, build_url, log, files, sigints>>


\* LoadOrEmpty without the else branches of lines 63-64 and 71-72: what is not
\* given stays None.
LoadOrNone(v) ==
    IF Truthy(v) THEN JsonLoads(v.text) ELSE [ok |-> TRUE, value |-> PyNone]

\* LoadOrEmpty with the JSONDecodeError swallowed: a text that does not parse
\* becomes {} as well.
LoadOrEmptyLenient(v) ==
    IF Truthy(v) /\ JsonLoads(v.text).ok
    THEN JsonLoads(v.text)
    ELSE [ok |-> TRUE, value |-> PyDict({})]

\* Lines 58-64 and 66-72: a truthy text is parsed, anything else becomes {}.
LoadOrEmpty(v) ==
    IF Truthy(v) THEN JsonLoads(v.text) ELSE [ok |-> TRUE, value |-> PyDict({})]

\* Lines 58-64.
ParseParameters ==
    /\ pc = "parse_parameters"
    /\ LET r == LoadOrEmpty(parameters) IN
         IF r.ok
         THEN parameters' = r.value /\ Goto("parse_cookies")
         ELSE /\ Raise(Err("Exception", <<"parameters", " is not valid JSON.">>))
              /\ UNCHANGED parameters
    /\ UNCHANGED <<environ, cookies, args, handler, clock, t0, build, build_url, log,
                   files, sigints>>

\* Lines 66-72.
ParseCookies ==
    /\ pc = "parse_cookies"
    /\ LET r == LoadOrEmpty(cookies) IN
         IF r.ok
         THEN cookies' = r.value /\ Goto("jenkins")
         ELSE /\ Raise(Err("Exception", <<"cookies", " is not valid JSON.">>))
              /\ UNCHANGED cookies
    /\ UNCHANGED <<environ, parameters, args, handler, clock, t0, build, build_url, log,
                   files, sigints>>

\* Line 74: Jenkins(url, auth=auth, cookies=cookies) builds the HTTP client and
\* sends nothing.  Given cookies that are no dict the client library may accept
\* them or raise.
NewJenkins ==
    /\ pc = "jenkins"
    /\ \/ /\ log' = Append(log, Entry("Jenkins", "ok", 0))
          /\ Goto("version")
       \/ /\ cookies.type # "dict"
          /\ log' = Append(log, Entry("Jenkins", "raise", 0))
          /\ Raise(Err("TypeError", <<"cookies">>))
    /\ UNCHANGED <<environ, parameters, cookies, args, handler, clock, t0, build,
                   build_url, files, sigints>>


\* Version with the exception swallowed: a failed fetch is logged and run() goes on.
VersionUnchecked ==
    /\ pc = "version"
    /\ \E ret \in {"ok", "raise"} : log' = Append(log, Entry("version", ret, 0))
    /\ Goto("build_job")
    /\ UNCHANGED <<environ, parameters, cookies, args, handler, clock, t0, build,
                   build_url, files, sigints>>

\* Lines 76-81: jenkins.version, any exception wrapped.
Version ==
    /\ pc = "version"
    /\ \/ /\ log' = Append(log, Entry("version", "ok", 0))
          /\ Goto("build_job")
       \/ /\ log' = Append(log, Entry("version", "raise", 0))
          /\ Raise(Err("Exception", <<"Could not connect to Jenkins.">>))
    /\ UNCHANGED <<environ, parameters, cookies, args, handler, clock, t0, build,
                   build_url, files, sigints>>


\* BuildJob with a failed submission caught and ignored.
BuildJobIgnoresFailure ==
    /\ pc = "build_job"
    /\ IF parameters.type # "dict"
       THEN /\ Raise(Err("TypeError", <<"argument after ** must be a mapping">>))
            /\ UNCHANGED log
       ELSE /\ \E ret \in {"QueueItem", "raise"} :
                 log' = Append(log, Entry("build_job", ret, 0))
            /\ Goto("requested")
    /\ UNCHANGED <<environ, parameters, cookies, args, handler, clock, t0, build,
                   build_url, files, sigints>>

\* Line 83: jenkins.build_job(job_name, **parameters).  ** needs a mapping:
\* with anything else Python raises TypeError before the call is made.
BuildJob ==
    /\ pc = "build_job"
    /\ IF parameters.type # "dict"
       THEN /\ Raise(Err("TypeError", <<"argument after ** must be a mapping">>))
            /\ UNCHANGED log
       ELSE \/ /\ log' = Append(log, Entry("build_job", "QueueItem", 0))
               /\ Goto("requested")
            \/ /\ log' = Append(log, Entry("build_job", "raise", 0))
               /\ Raise(Err("JenkinsError", <<"build_job">>))
    /\ UNCHANGED <<environ, parameters, cookies, args, handler, clock, t0, build,
                   build_url, files, sigints>>

\* Lines 87-88 and 114-115: the handler in place after `if flag: register(...)`.

\* Registered without the test of the flag: the handler is always installed.
RegisteredAlways(flag, new, old) == new

Registered(flag, new, old) == IF flag THEN new ELSE old

\* Lines 85-88: log, then install the queue-item handler if asked to.
RegisterQueueItemCancel ==
    /\ pc = "requested"
    /\ handler' = Registered(cancel_jenkins_run_on_gh_cancel, "queue_item_cancel", handler)
    /\ Goto("queue_t0")
    /\ UNCHANGED <<environ, parameters, cookies, args, clock, t0, build, build_url, log,
                   files, sigints>>

\* sleep(interval), lines 91, 97, 122, 131.
Sleep ==
    /\ clock' = clock + interval
    /\ log' = Append(log, Entry("sleep", "ok", interval))

\* SleepFrom with the sleep before the first poll left out.
SleepFromNoSleep(now) ==
    /\ t0' = now
    /\ clock' = now
    /\ log' = log

\* Lines 90-91 and 121-122: t0 = time(); sleep(interval).
SleepFrom(now) ==
    /\ t0' = now
    /\ clock' = now + interval
    /\ log' = Append(log, [op |-> "sleep", ret |-> "ok", at |-> 0, took |-> interval])

\* LoopContinues with <= for <: one more round when the limit is hit exactly.
LoopContinuesInclusive(elapsed, limit) == elapsed <= limit

\* Lines 92 and 123: the loop condition, time() - t0 < limit.
LoopContinues(elapsed, limit) == elapsed < limit

\* Lines 90-91.
QueueStart ==
    /\ pc = "queue_t0"
    /\ SleepFrom(clock)
    /\ Goto("queue_while")
    /\ UNCHANGED <<environ, parameters, cookies, args, handler, build, build_url, files,
                   sigints>>

\* Line 92, and the loop's else clause, lines 98-101.
QueueWhile ==
    /\ pc = "queue_while"
    /\ IF LoopContinues(clock - t0, start_timeout)
       THEN Goto("get_build")
       ELSE Raise(Err("Exception", <<"Could not obtain build and timed out. Waited for ",
                                     DecimalText[start_timeout], " seconds.">>))
    /\ UNCHANGED <<environ, parameters, cookies, args, handler, clock, t0, build,
                   build_url, log, files, sigints>>

\* Lines 93-95: queue_item.get_build(), a request that takes d seconds.
GetBuild ==
    /\ pc = "get_build"
    /\ \E d \in {0, MaxLatency} :
         /\ clock' = clock + d
         /\ \/ /\ log' = Append(log, Entry("get_build", "Build", d))
               /\ build' = TRUE
               /\ Goto("build_url")
            \/ /\ log' = Append(log, Entry("get_build", "None", d))
               /\ build' = FALSE
               /\ Goto("queue_sleep")
            \/ /\ log' = Append(log, Entry("get_build", "raise", d))
               /\ UNCHANGED build
               /\ Raise(Err("JenkinsError", <<"get_build">>))
    /\ UNCHANGED <<environ, parameters, cookies, args, handler, t0, build_url, files,
                   sigints>>

\* Lines 96-97.
QueueSleep ==
    /\ pc = "queue_sleep"
    /\ Sleep
    /\ Goto("queue_while")
    /\ UNCHANGED <<environ, parameters, cookies, args, handler, t0, build, build_url,
                   files, sigints>>

\* Lines 106, 110 and 112: the three lines written for a build URL.
OutputLine(url) == "build_url=" \o url
SummaryLine(url) == "The build URL is: [" \o url \o "](" \o url \o ")"
NoticeLine(url) == "::notice title=build_url::" \o url

\* Lines 103-104: build.url, an attribute of the Build, read once.
BuildUrl ==
    /\ pc = "build_url"
    /\ \E u \in BuildUrls : build_url' = u
    /\ Goto("github_output")
    /\ UNCHANGED <<environ, parameters, cookies, args, handler, clock, t0, build, log,
                   files, sigints>>

\* Lines 105-106: append to $GITHUB_OUTPUT; the variable may be unset (KeyError)
\* or the file may not open (OSError).
WriteOutput ==
    /\ pc = "github_output"
    /\ \/ /\ outputFile' = Append(outputFile, OutputLine(build_url))
          /\ Goto("github_step_summary")
       \/ /\ Raise(Err("OSError", <<"GITHUB_OUTPUT">>))
          /\ UNCHANGED outputFile
    /\ UNCHANGED <<environ, parameters, cookies, args, handler, clock, t0, build,
                   build_url, log, summaryFile, stdout, sigints>>

\* WriteSummary placed after the completion loop: nothing is written here.
WriteSummaryDeferred ==
    /\ pc = "github_step_summary"
    /\ Goto("notice")
    /\ UNCHANGED <<environ, parameters, cookies, args, handler, clock, t0, build,
                   build_url, log, files, sigints>>


\* WriteSummary with build.url read again in place of the local build_url.
WriteSummaryRereadsUrl ==
    /\ pc = "github_step_summary"
    /\ \/ /\ \E u \in BuildUrls : summaryFile' = Append(summaryFile, SummaryLine(u))
          /\ Goto("notice")
       \/ /\ Raise(Err("OSError", <<"GITHUB_STEP_SUMMARY">>))
          /\ UNCHANGED summaryFile
    /\ UNCHANGED <<environ, parameters, cookies, args, handler, clock, t0, build,
                   build_url, log, outputFile, stdout, sigints>>

\* Lines 109-110: append to $GITHUB_STEP_SUMMARY, likewise.
WriteSummary ==
    /\ pc = "github_step_summary"
    /\ \/ /\ summaryFile' = Append(summaryFile, SummaryLine(build_url))
          /\ Goto("notice")
       \/ /\ Raise(Err("OSError", <<"GITHUB_STEP_SUMMARY">>))
          /\ UNCHANGED summaryFile
    /\ UNCHANGED <<environ, parameters, cookies, args, handler, clock, t0, build,
                   build_url, log, outputFile, stdout, sigints>>

\* Line 112.
PrintNotice ==
    /\ pc = "notice"
    /\ stdout' = Append(stdout, NoticeLine(build_url))
    /\ Goto("built")
    /\ UNCHANGED <<environ, parameters, cookies, args, handler, clock, t0, build,
                   build_url, log, outputFile, summaryFile, sigints>>

\* Lines 114-115: install the build handler if asked to.
RegisterBuildItemCancel ==
    /\ pc = "built"
    /\ handler' = Registered(cancel_jenkins_run_on_gh_cancel, "build_item_cancel", handler)
    /\ Goto("if_wait")
    /\ UNCHANGED <<environ, parameters, cookies, args, clock, t0, build, build_url, log,
                   files, sigints>>

\* Waits with the wait flag ignored.
WaitsAlways(flag) == TRUE

\* Line 117: whether run() goes on to poll for the result.
Waits(flag) == flag

\* Lines 117-119.
IfNotWait ==
    /\ pc = "if_wait"
    /\ IF Waits(wait) THEN Goto("wait_t0") ELSE Return
    /\ UNCHANGED <<environ, parameters, cookies, args, handler, clock, t0, build,
                   build_url, log, files, sigints>>

\* Lines 121-122.
WaitStart ==
    /\ pc = "wait_t0"
    /\ SleepFrom(clock)
    /\ Goto("wait_while")
    /\ UNCHANGED <<environ, parameters, cookies, args, handler, build, build_url, files,
                   sigints>>

\* Line 123, and the loop's else clause, lines 132-135.
WaitWhile ==
    /\ pc = "wait_while"
    /\ IF LoopContinues(clock - t0, timeout)
       THEN Goto("result")
       ELSE Raise(Err("Exception", <<"Build has not finished and timed out. Waited for ",
                                     DecimalText[timeout], " seconds.">>))
    /\ UNCHANGED <<environ, parameters, cookies, args, handler, clock, t0, build,
                   build_url, log, files, sigints>>

\* ResultOutcome with the return at line 127 missing: SUCCESS is logged and
\* the loop goes on.
ResultOutcomeNoReturn(result) ==
    CASE result \in {"FAILURE", "ABORTED", "UNSTABLE"} -> "raise"
      [] OTHER -> "sleep"

\* ResultOutcome with UNSTABLE left out of the tuple at line 128.
ResultOutcomeUnstableRuns(result) ==
    CASE result = "SUCCESS" -> "return"
      [] result \in {"FAILURE", "ABORTED"} -> "raise"
      [] OTHER -> "sleep"

\* Lines 125-130: what a result read at line 124 does to the run.
ResultOutcome(result) ==
    CASE result = "SUCCESS" -> "return"
      [] result \in {"FAILURE", "ABORTED", "UNSTABLE"} -> "raise"
      [] OTHER -> "sleep"

\* Lines 124-130: build.result, a request that takes d seconds.
Result ==
    /\ pc = "result"
    /\ \E d \in {0, MaxLatency} :
         /\ clock' = clock + d
         /\ \/ \E result \in BuildResults :
                 /\ log' = Append(log, Entry("result", result, d))
                 /\ CASE ResultOutcome(result) = "return" -> Return
                      [] ResultOutcome(result) = "raise" ->
                           Raise(Err("Exception", <<"Build status returned ", result,
                                                    ". Build has failed.">>))
                      [] OTHER -> Goto("wait_sleep")
            \/ /\ log' = Append(log, Entry("result", "raise", d))
               /\ Raise(Err("JenkinsError", <<"result">>))
    /\ UNCHANGED <<environ, parameters, cookies, args, handler, t0, build, build_url,
                   files, sigints>>

\* Lines 130-131.
WaitSleep ==
    /\ pc = "wait_sleep"
    /\ Sleep
    /\ Goto("wait_while")
    /\ UNCHANGED <<environ, parameters, cookies, args, handler, t0, build, build_url,
                   files, sigints>>

\* SIGINT arrives while the process runs, between any two statements or during
\* a call.  Python runs the installed handler in the main thread: the default
\* one raises KeyboardInterrupt (exit status 130); lines 18-21 and 29-32 print
\* and call Jenkins.  A handler that is interrupted runs again, nested.
Interrupt ==
    /\ pc # "exit"
    /\ Len(sigints) < MaxInterrupts
    /\ sigints' = Append(sigints, pc)
    /\ CASE handler = "queue_item_cancel" ->
              /\ log' = Append(log, Entry("cancel", "called", 0))
              /\ Goto("signal_cancel")
         [] handler = "build_item_cancel" ->
              /\ log' = Append(log, Entry("stop", "called", 0))
              /\ Goto("signal_stop")
         [] OTHER ->
              /\ pc' = "exit"
              /\ exitCode' = 130
              /\ error' = Err("KeyboardInterrupt", <<>>)
              /\ UNCHANGED log
    /\ UNCHANGED <<environ, parameters, cookies, args, handler, clock, t0, build,
                   build_url, files>>

\* Lines 20-21 and 31-32: the handler's call returns and sys.exit(0) ends the
\* process, or the call raises.
HandlerExit ==
    /\ pc \in {"signal_cancel", "signal_stop"}
    /\ \/ Return
       \/ Raise(Err("JenkinsError", <<IF pc = "signal_cancel" THEN "cancel" ELSE "stop">>))
    /\ UNCHANGED <<environ, parameters, cookies, args, handler, clock, t0, build,
                   build_url, log, files, sigints>>

\* Every statement of main(), run() and the handlers.
Program ==
    \/ Main
    \/ ParseParameters
    \/ ParseCookies
    \/ NewJenkins
    \/ Version
    \/ BuildJob
    \/ RegisterQueueItemCancel
    \/ QueueStart
    \/ QueueWhile
    \/ GetBuild
    \/ QueueSleep
    \/ BuildUrl
    \/ WriteOutput
    \/ WriteSummary
    \/ PrintNotice
    \/ RegisterBuildItemCancel
    \/ IfNotWait
    \/ WaitStart
    \/ WaitWhile
    \/ Result
    \/ WaitSleep
    \/ HandlerExit

Next == Program \/ Interrupt

Spec == Init /\ [][Next]_vars

\* The process keeps executing until it exits: no statement is skipped forever
\* and every call made returns or raises.
FairSpec == Spec /\ WF_vars(Program)

\* ------------------------------------------------------------ vocabulary
\* The entries of log for one operation, in order.
Ops(op) == SelectSeq(log, LAMBDA e : e.op = op)
Count(op) == Len(Ops(op))

\* The requests sent to the Jenkins server (the client's constructor sends none).
NetworkOps == {"version", "build_job", "get_build", "result", "cancel", "stop"}
NetworkCalls == SelectSeq(log, LAMBDA e : e.op \in NetworkOps)

\* Where the process is while the request is queued: build_job has returned
\* and get_build has not yet returned a Build.
QueuedPcs == {"requested", "queue_t0", "queue_while", "get_build", "queue_sleep"}
\* Where the process is once get_build has returned a Build.
BuiltPcs == {"build_url", "github_output", "github_step_summary", "notice", "built",
             "if_wait", "wait_t0", "wait_while", "result", "wait_sleep"}

Exited == pc = "exit"
Uninterrupted == sigints = <<>>
\* main() got as far as calling run().
RunEntered ==
    /\ IsDecimal(environ.INPUT_TIMEOUT)
    /\ pc # "main"
    /\ (sigints = <<>> \/ sigints[1] # "main")

\* ---------------------------------------------------------------- claims

\* C1: with cancel-propagation enabled, a SIGINT that arrives while the request
\* is queued (job submitted, no build handle yet) leads to exactly one call of
\* queue_item.cancel(), no call of build.stop(), and exit status 0.
C1_InterruptWhileQueuedCancelsOnce ==
    (/\ cancel_jenkins_run_on_gh_cancel
     /\ Exited
     /\ sigints # <<>>
     /\ sigints[1] \in QueuedPcs)
    => (Count("cancel") = 1 /\ Count("stop") = 0 /\ exitCode = 0)

\* C2: with cancel-propagation enabled, every SIGINT that arrives once
\* get_build has returned a Build calls build.stop() and never
\* queue_item.cancel().
C2_InterruptAfterBuildStops ==
    (/\ cancel_jenkins_run_on_gh_cancel
     /\ sigints # <<>>
     /\ sigints[1] \in BuiltPcs)
    => (Count("cancel") = 0 /\ Count("stop") >= 1)

\* C3: when INPUT_PARAMETERS or INPUT_COOKIES is malformed JSON, run() makes no
\* call to Jenkins (not even the client's construction), and an uninterrupted
\* run() ends with the exception naming an offending field.
MalformedFields ==
    {f \in {"parameters", "cookies"} :
        LET v == IF f = "parameters" THEN environ.INPUT_PARAMETERS
                 ELSE environ.INPUT_COOKIES
        IN v = PyStr(JsonBadText)}

C3_MalformedJsonFailsBeforeJenkins ==
    MalformedFields # {} =>
        /\ log = <<>>
        /\ pc \in {"main", "parse_parameters", "parse_cookies", "exit"}
        /\ (Exited /\ Uninterrupted /\ RunEntered) =>
              /\ exitCode = 1
              /\ error.type = "Exception"
              /\ \E f \in MalformedFields : error.msg = <<f, " is not valid JSON.">>

C3_Witness ==
    /\ environ.INPUT_PARAMETERS = PyStr(JsonArrayText)
    /\ environ.INPUT_COOKIES = PyStr(JsonBadText)
    /\ Exited
    /\ error.msg = <<"cookies", " is not valid JSON.">>
    /\ log = <<>>

\* C4: when INPUT_PARAMETERS or INPUT_COOKIES is given and is not a JSON object
\* (well-formed JSON of another type included), no request is sent to Jenkins.
NonObjectGiven ==
    \E v \in {environ.INPUT_PARAMETERS, environ.INPUT_COOKIES} :
        Truthy(v) /\ v.text # JsonObjectText

C4_NonObjectRejectedBeforeNetwork ==
    NonObjectGiven => NetworkCalls = <<>>

\* C5: when the queue item yields no build on polls 1..N-1 and a build on poll
\* N, run() has slept at least N intervals before that poll, makes no further
\* get_build poll, and publishes the build URL exactly once.
Polls == Ops("get_build")
BuildPollIndex ==
    CHOOSE i \in 1..Len(log) : log[i].op = "get_build" /\ log[i].ret = "Build"
SleepsBefore(i) == Len(SelectSeq(SubSeq(log, 1, i - 1), LAMBDA e : e.op = "sleep"))
PublishedPcs == {"built", "if_wait", "wait_t0", "wait_while", "result", "wait_sleep"}
PublishedOnce == Len(outputFile) = 1 /\ Len(summaryFile) = 1 /\ Len(stdout) = 1

C5_BuildOnNthPollPublishedOnce ==
    build =>
        LET N == Len(Polls) IN
        /\ N >= 1
        /\ Polls[N].ret = "Build"
        /\ \A i \in 1..(N - 1) : Polls[i].ret = "None"
        /\ SleepsBefore(BuildPollIndex) >= N
        /\ Polls[N].at >= N * interval
        /\ Len(outputFile) <= 1 /\ Len(summaryFile) <= 1 /\ Len(stdout) <= 1
        /\ pc \in PublishedPcs => PublishedOnce
        /\ (Exited /\ Uninterrupted /\ error.type # "OSError") => PublishedOnce

C5_Witness ==
    /\ pc = "if_wait"
    /\ Len(Polls) = 2
    /\ Polls[1].ret = "None" /\ Polls[2].ret = "Build"
    /\ 2 * interval < start_timeout
    /\ PublishedOnce

\* C6 as claimed: the queue-timeout error is raised at an elapsed time t with
\* start_timeout <= t < start_timeout + interval.
QueueTimedOut ==
    /\ Exited
    /\ error.type = "Exception"
    /\ error.msg[1] = "Could not obtain build and timed out. Waited for "

C6_OvershootBelowOneInterval ==
    QueueTimedOut =>
        /\ start_timeout <= clock - t0
        /\ clock - t0 < start_timeout + interval

\* C6 as amended: the queue-timeout error reports start_timeout, is raised
\* only after polls that all yielded no build, at an elapsed time t with
\* start_timeout <= t < start_timeout + interval + d, d being the time the
\* last get_build call took (0 when no poll was made); so the overshoot is
\* below one interval when that call took no time.
LastPollTook == IF Polls = <<>> THEN 0 ELSE Polls[Len(Polls)].took

C6_OvershootBelowIntervalPlusLastPoll ==
    QueueTimedOut =>
        /\ error.msg = <<"Could not obtain build and timed out. Waited for ",
                         DecimalText[start_timeout], " seconds.">>
        /\ exitCode = 1
        /\ \A i \in 1..Len(Polls) : Polls[i].ret = "None"
        /\ start_timeout <= clock - t0
        /\ clock - t0 < start_timeout + interval + LastPollTook

C6_Witness ==
    /\ QueueTimedOut
    /\ start_timeout = 3 /\ interval = 2
    /\ Len(Polls) = 1
    /\ clock - t0 = 4

\* C7: with wait false, build.result is never read and the completion loop is
\* never entered; a run that published the build URL returns at once, with
\* exit status 0.
C7_NoWaitNoCompletionPoll ==
    (RunEntered /\ ~wait) =>
        /\ Count("result") = 0
        /\ pc \notin {"wait_t0", "wait_while", "result", "wait_sleep"}
        /\ (Exited /\ Uninterrupted /\ Len(stdout) = 1) =>
              /\ exitCode = 0
              /\ error = NoError
              /\ log[Len(log)].op = "get_build"

C7_Witness ==
    /\ RunEntered /\ ~wait
    /\ Exited /\ exitCode = 0
    /\ build /\ PublishedOnce

\* C8: with wait true, when the result is absent on reads 1..k-1 and SUCCESS on
\* read k, the run ends with exit status 0 after exactly those k reads, read i
\* being made no sooner than i intervals after the loop was entered and before
\* the timeout.
Reads == Ops("result")

C8_SuccessOnKthPollEndsRun ==
    LET k == Len(Reads) IN
    (/\ k >= 1
     /\ Reads[k].ret = "SUCCESS"
     /\ \A i \in 1..(k - 1) : Reads[i].ret = "None")
    => /\ wait
       /\ Exited
       /\ exitCode = 0
       /\ error = NoError
       /\ log[Len(log)] = Reads[k]
       /\ \A i \in 1..k : i * interval <= Reads[i].at /\ Reads[i].at < timeout

C8_Witness ==
    /\ Len(Reads) = 2
    /\ Reads[1].ret = "None" /\ Reads[2].ret = "SUCCESS"
    /\ 2 * interval < timeout
    /\ Exited /\ exitCode = 0

\* C9: each read of build.result is mapped so: SUCCESS ends the run with exit
\* status 0; FAILURE, ABORTED or UNSTABLE ends it with an exception whose
\* message holds that very string; None or anything else is followed by a
\* sleep and the next round.  So a run that waited ends successfully only
\* after reading SUCCESS, and with the completion-timeout error only when no
\* read returned one of the four.
FailedResults == {"FAILURE", "ABORTED", "UNSTABLE"}
EndingResults == {"SUCCESS"} \cup FailedResults
CompletionTimedOut ==
    /\ Exited
    /\ error.type = "Exception"
    /\ error.msg[1] = "Build has not finished and timed out. Waited for "

C9_ResultMapping ==
    /\ \A i \in 1..Len(log) :
         log[i].op = "result" =>
           CASE log[i].ret = "SUCCESS" ->
                  i = Len(log) /\ Exited /\ exitCode = 0 /\ error = NoError
             [] log[i].ret \in FailedResults ->
                  /\ i = Len(log) /\ Exited /\ exitCode = 1
                  /\ error.type = "Exception"
                  /\ \E j \in 1..Len(error.msg) : error.msg[j] = log[i].ret
             [] log[i].ret = "raise" -> i = Len(log) /\ Exited /\ exitCode = 1
             [] OTHER ->
                  /\ i = Len(log) => pc \in {"wait_sleep", "exit"} /\ exitCode # 0
                  /\ i < Len(log) => log[i + 1].op \in {"sleep", "stop"}
    /\ (Exited /\ exitCode = 0 /\ Uninterrupted /\ wait /\ PublishedOnce) =>
          \E i \in 1..Len(Reads) : Reads[i].ret = "SUCCESS"
    /\ CompletionTimedOut =>
          /\ \A i \in 1..Len(Reads) : Reads[i].ret \notin EndingResults
          /\ error.msg = <<"Build has not finished and timed out. Waited for ",
                           DecimalText[timeout], " seconds.">>

C9_Witness ==
    /\ Len(Reads) = 2
    /\ Reads[1].ret = "NOT_BUILT" /\ Reads[2].ret = "UNSTABLE"
    /\ Exited
    /\ error.msg = <<"Build status returned ", "UNSTABLE", ". Build has failed.">>

\* C10: a run that ends in an exception before a build is obtained has
\* appended nothing to GITHUB_OUTPUT or GITHUB_STEP_SUMMARY; a run that ends in
\* a build failure or the completion timeout has appended the build URL to
\* both, and did so before build.result was first read.
BuildFailed ==
    /\ Exited
    /\ error.type = "Exception"
    /\ error.msg[1] = "Build status returned "

C10_PublicationAndFatalErrors ==
    /\ (Exited /\ error # NoError /\ ~build) => (outputFile = <<>> /\ summaryFile = <<>>)
    /\ (BuildFailed \/ CompletionTimedOut \/ Reads # <<>>) =>
          /\ outputFile = <<"build_url=" \o build_url>>
          /\ summaryFile = <<"The build URL is: [" \o build_url \o "](" \o build_url \o ")">>
          /\ build_url \in BuildUrls

C10_Witness ==
    /\ CompletionTimedOut
    /\ Reads # <<>>
    /\ Len(outputFile) = 1 /\ Len(summaryFile) = 1

\* C11: INPUT_TIMEOUT is needed only when waiting: with INPUT_WAIT unset and
\* INPUT_TIMEOUT absent the configuration is accepted and run() is entered.
C11_TimeoutOptionalWhenNotWaiting ==
    (/\ environ.INPUT_WAIT = PyNone
     /\ environ.INPUT_TIMEOUT = PyNone
     /\ Exited
     /\ Uninterrupted)
    => error # Err("TypeError", <<"int() argument must be a string">>)

\* C12: build_job is called only after the one version fetch has succeeded; a
\* failed fetch ends the run with the "Could not connect to Jenkins." error and
\* build_job is never called.
C12_SubmitOnlyAfterVersion ==
    /\ Count("version") <= 1
    /\ \A i \in 1..Len(log) :
         /\ (log[i].op = "build_job") =>
               /\ i >= 2
               /\ log[i - 1] = [op |-> "version", ret |-> "ok", at |-> 0, took |-> 0]
         /\ (log[i].op = "version" /\ log[i].ret = "raise") =>
               /\ i = Len(log)
               /\ Exited
               /\ exitCode = 1
               /\ error = Err("Exception", <<"Could not connect to Jenkins.">>)

C12_Witness ==
    /\ Exited
    /\ error = Err("Exception", <<"Could not connect to Jenkins.">>)
    /\ Count("version") = 1
    /\ Count("build_job") = 0

\* C13: nothing is retried.  build_job and the version fetch are each called at
\* most once; a failed submission ends the run at once, with no poll and
\* nothing published; every exception ends the process with a non-zero exit
\* status, and the last thing in the log is what failed: no call to Jenkins
\* follows a fatal error.
ConfigErrored ==
    /\ Exited
    /\ error.type = "Exception"
    /\ Len(error.msg) = 2
    /\ error.msg[2] = " is not valid JSON."
ConnectErrored == Exited /\ error = Err("Exception", <<"Could not connect to Jenkins.">>)
SubmitErrored == Exited /\ error = Err("JenkinsError", <<"build_job">>)
Last == log[Len(log)]

C13_NoRetryFatalErrors ==
    /\ Count("build_job") <= 1
    /\ Count("version") <= 1
    /\ (Exited /\ error # NoError) => exitCode # 0
    /\ exitCode = 0 => error = NoError
    /\ ConfigErrored => log = <<>>
    /\ ConnectErrored => (Last.op = "version" /\ Last.ret = "raise")
    /\ SubmitErrored =>
          /\ Last.op = "build_job" /\ Last.ret = "raise"
          /\ Polls = <<>>
          /\ outputFile = <<>> /\ summaryFile = <<>> /\ stdout = <<>>
    /\ (\E i \in 1..Len(log) : log[i].op = "build_job" /\ log[i].ret = "raise")
          => SubmitErrored
    /\ QueueTimedOut => (Last.op = "sleep" /\ exitCode = 1 /\ Count("result") = 0)
    /\ CompletionTimedOut => (Last.op = "sleep" /\ exitCode = 1)
    /\ BuildFailed => (Last.op = "result" /\ Last.ret \in FailedResults /\ exitCode = 1)

C13_Witness ==
    /\ SubmitErrored
    /\ exitCode = 1
    /\ Count("version") = 1

\* C14: when INPUT_PARAMETERS and INPUT_COOKIES are both unset or empty, the
\* parameters passed to build_job and the cookies passed to Jenkins(...) are
\* empty dicts, never None.
NotGiven(v) == v \in {PyNone, PyStr("")}
ParametersParsed == RunEntered /\ (pc \in {"parse_cookies", "jenkins"} \/ log # <<>>)
CookiesParsed == RunEntered /\ (pc = "jenkins" \/ log # <<>>)

C14_AbsentJsonIsEmptyDict ==
    (NotGiven(environ.INPUT_PARAMETERS) /\ NotGiven(environ.INPUT_COOKIES)) =>
        /\ ParametersParsed => parameters = [type |-> "dict", text |-> "", keys |-> {}]
        /\ CookiesParsed => cookies = [type |-> "dict", text |-> "", keys |-> {}]
        /\ error.type # "TypeError" \/ ~RunEntered

C14_Witness ==
    /\ environ.INPUT_PARAMETERS = PyStr("")
    /\ environ.INPUT_COOKIES = PyNone
    /\ Count("Jenkins") = 1
    /\ Count("build_job") = 1
    /\ parameters = PyDict({}) /\ cookies = PyDict({})

\* C15: the build URL is read once, after get_build returned the Build, and
\* that value, unchanged, is the URL of the GITHUB_OUTPUT line, of the
\* GITHUB_STEP_SUMMARY line and of the ::notice line, whatever build.url would
\* return if read again.
C15_PublishedUrlIsTheOneRead ==
    /\ build_url # "" => (build /\ build_url \in BuildUrls)
    /\ outputFile \in {<<>>, <<"build_url=" \o build_url>>}
    /\ summaryFile \in
          {<<>>, <<"The build URL is: [" \o build_url \o "](" \o build_url \o ")">>}
    /\ stdout \in {<<>>, <<"::notice title=build_url::" \o build_url>>}
    /\ (outputFile # <<>> \/ summaryFile # <<>> \/ stdout # <<>>) => build_url # ""

C15_Witness ==
    /\ build_url = "http://j/job/a/2/"
    /\ outputFile = <<"build_url=http://j/job/a/2/">>
    /\ summaryFile = <<"The build URL is: [http://j/job/a/2/](http://j/job/a/2/)">>
    /\ stdout = <<"::notice title=build_url::http://j/job/a/2/">>

\* C16: wait and cancel_jenkins_run_on_gh_cancel are true exactly when their
\* variable is set to a non-empty text, "false" included: only then is the
\* completion loop entered, respectively a SIGINT handler installed.
SetNonEmpty(v) == v.type = "str" /\ v.text # ""

C16_PresenceBooleans ==
    /\ RunEntered =>
          /\ wait <=> SetNonEmpty(environ.INPUT_WAIT)
          /\ cancel_jenkins_run_on_gh_cancel <=>
                SetNonEmpty(environ.INPUT_CANCEL_JENKINS_RUN_ON_GH_CANCEL)
    /\ (Reads # <<>> \/ pc \in {"wait_t0", "wait_while", "result", "wait_sleep"})
          => SetNonEmpty(environ.INPUT_WAIT)
    /\ (environ.INPUT_WAIT = PyStr("false") /\ Exited /\ exitCode = 0 /\ Uninterrupted)
          => Reads # <<>>
    /\ handler # "default" => SetNonEmpty(environ.INPUT_CANCEL_JENKINS_RUN_ON_GH_CANCEL)
    /\ (/\ environ.INPUT_CANCEL_JENKINS_RUN_ON_GH_CANCEL = PyStr("false")
        /\ pc \in (QueuedPcs \ {"requested"}) \cup BuiltPcs)
          => handler # "default"

C16_Witness ==
    /\ environ.INPUT_WAIT = PyStr("false")
    /\ environ.INPUT_CANCEL_JENKINS_RUN_ON_GH_CANCEL = PyStr("false")
    /\ wait /\ cancel_jenkins_run_on_gh_cancel
    /\ Reads # <<>>
    /\ handler = "build_item_cancel"

\* C17 as claimed: get_build is called only at the elapsed times interval,
\* 2*interval, ... below start_timeout, at most ceil(start_timeout/interval) - 1
\* times, and build.result is read only below timeout, at most
\* ceil(timeout/interval) - 1 times.
CeilDiv(a, b) == (a + b - 1) \div b

C17_PollsAtMultiplesOfInterval ==
    RunEntered =>
        LET P == Polls
            R == Reads
        IN /\ \A i \in 1..Len(P) : P[i].at = i * interval /\ P[i].at < start_timeout
           /\ Len(P) <= CeilDiv(start_timeout, interval) - 1
           /\ \A i \in 1..Len(R) : R[i].at < timeout
           /\ Len(R) <= CeilDiv(timeout, interval) - 1

\* C17 as amended: with interval >= 1 the run terminates whatever Jenkins
\* answers, and the polls are bounded: poll i of get_build is made at an
\* elapsed time of at least i*interval (more when earlier polls took time)
\* and below start_timeout, so there are at most ceil(start_timeout/interval)-1
\* of them; likewise for the reads of build.result and timeout.  With
\* interval >= start_timeout (resp. timeout) no poll is made and the loop ends
\* in its timeout error.
C17_PollBounds ==
    RunEntered =>
        LET P == Polls
            R == Reads
        IN /\ interval >= 1
           /\ \A i \in 1..Len(P) : i * interval <= P[i].at /\ P[i].at < start_timeout
           /\ Len(P) <= CeilDiv(start_timeout, interval) - 1
           /\ \A i \in 1..Len(R) : i * interval <= R[i].at /\ R[i].at < timeout
           /\ Len(R) <= CeilDiv(timeout, interval) - 1
           /\ interval >= start_timeout =>
                 /\ P = <<>> /\ ~build
                 /\ (Exited /\ Uninterrupted /\ Count("sleep") >= 1) => QueueTimedOut
           /\ (interval >= timeout /\ wait) =>
                 /\ R = <<>>
                 /\ (Exited /\ Uninterrupted /\ PublishedOnce) => CompletionTimedOut

C17_TerminatesWithBoundedPolls == []C17_PollBounds /\ <>Exited

C17_Witness ==
    /\ QueueTimedOut
    /\ interval = 1 /\ start_timeout = 3
    /\ Len(Polls) = 2
    /\ Polls[2].at = 2

\* C18 as claimed: build-URL publication is all-or-nothing: whenever the
\* process has ended (success, fatal error, or exit from an interrupt handler)
\* either none or all three of the GITHUB_OUTPUT line, the GITHUB_STEP_SUMMARY
\* line and the ::notice line have been emitted.
NothingPublished == outputFile = <<>> /\ summaryFile = <<>> /\ stdout = <<>>

C18_PublicationAllOrNothing == Exited => (NothingPublished \/ PublishedOnce)

\* C19: with cancel-propagation disabled (the variable unset or empty) no
\* interrupt handler is ever registered: an interrupt at any point of the run
\* calls neither cancel on the queue item nor stop on the build, and ends the
\* process there and then with a KeyboardInterrupt and a non-zero exit status.
CancelDisabled == ~SetNonEmpty(environ.INPUT_CANCEL_JENKINS_RUN_ON_GH_CANCEL)

C19_DisabledCancelRegistersNoHandler ==
    CancelDisabled =>
        /\ ~cancel_jenkins_run_on_gh_cancel
        /\ handler = "default"
        /\ Count("cancel") = 0 /\ Count("stop") = 0
        /\ pc \notin {"signal_cancel", "signal_stop"}
        /\ sigints # <<>> =>
              /\ Len(sigints) = 1
              /\ Exited
              /\ exitCode = 130
              /\ error = Err("KeyboardInterrupt", <<>>)

C19_Witness ==
    /\ CancelDisabled
    /\ sigints # <<>> /\ sigints[1] \in {"result", "wait_sleep"}
    /\ build
    /\ Exited /\ exitCode = 130
    /\ Count("stop") = 0
====
